---- MODULE Spec2Model ----
(***************************************************************************)
(* IPS patch codec and differ (ips_patch.py): IPSPatchRecord and IPSPatch. *)
(* Byte strings are sequences of integers 0..255; Python indices are       *)
(* 0-based, so s[k] of the source is s[k+1] here.                          *)
(***************************************************************************)
EXTENDS Integers, Sequences, FiniteSets, TLC

VARIABLES pc, args, record, wire, pos, decoded, src, dest, patch, data, mutate, k, ret

vars == <<pc, args, record, wire, pos, decoded, src, dest, patch, data, mutate, k, ret>>

-----------------------------------------------------------------------------
(* Module constants of ips_patch.py *)

OFFSET_SIZE == 3
OFFSET_BITS == OFFSET_SIZE * 8
OFFSET_MAX == 2 ^ OFFSET_BITS - 1
SIZE_SIZE == 2
SIZE_BITS == SIZE_SIZE * 8
SIZE_MAX == 2 ^ SIZE_BITS - 1
RLE_SIZE_SIZE == 2
RLE_SIZE_BITS == RLE_SIZE_SIZE * 8
RLE_SIZE_MAX == 2 ^ RLE_SIZE_BITS - 1
\* b'PATCH'
PATCH == <<80, 65, 84, 67, 72>>
\* b'EOF'
EOF == <<69, 79, 70>>

-----------------------------------------------------------------------------
(* Python built-ins used by the code *)

Min(a, b) == IF a <= b THEN a ELSE b

\* s[a:b] for 0 <= a: both ends are clamped to len(s)
Slice(s, a, b) == SubSeq(s, Min(a, Len(s)) + 1, Min(b, Len(s)))

\* s * n
Repeat(s, n) == <<>> \o [x \in 1..(n * Len(s)) |-> s[((x - 1) % Len(s)) + 1]]

\* int.from_bytes(bs, 'big'); b'' gives 0
RECURSIVE IntFromBytes(_)
IntFromBytes(bs) ==
    IF bs = <<>> THEN 0
    ELSE IntFromBytes(SubSeq(bs, 1, Len(bs) - 1)) * 256 + bs[Len(bs)]

\* n.to_bytes(size, 'big'), for 0 <= n < 256^size (the constructor's checks
\* keep every value the code converts in that range)
IntToBytes(n, size) == [x \in 1..size |-> (n \div (256 ^ (size - x))) % 256]

\* data[i:j] = v on a bytearray, 0 <= i <= j
SliceAssign(s, i, j, v) == Slice(s, 0, i) \o v \o Slice(s, j, Len(s))

\* a raised ValueError
ValueError == [error |-> "ValueError"]
IsError(x) == "error" \in DOMAIN x
None == [none |-> TRUE]

-----------------------------------------------------------------------------
(* class IPSPatchRecord *)

\* mutant: the data length check is off by one
IPSPatchRecordOffByOne(offset, d, rle_size) ==
    IF ~(0 <= offset /\ offset <= OFFSET_MAX) THEN ValueError
    ELSE IF Len(d) >= SIZE_MAX THEN ValueError
    ELSE IF ~(0 <= rle_size /\ rle_size <= RLE_SIZE_MAX) THEN ValueError
    ELSE [offset |-> offset, data |-> d, rle_size |-> rle_size]

IPSPatchRecord(offset, d, rle_size) ==
    IF ~(0 <= offset /\ offset <= OFFSET_MAX) THEN ValueError
    ELSE IF Len(d) > SIZE_MAX THEN ValueError
    ELSE IF ~(0 <= rle_size /\ rle_size <= RLE_SIZE_MAX) THEN ValueError
    ELSE [offset |-> offset, data |-> d, rle_size |-> rle_size]

\* is_rle
is_rle(r) == r.rle_size > 0

size(r) == IF is_rle(r) THEN 0 ELSE Len(r.data)

applied_size(r) == IF is_rle(r) THEN r.rle_size ELSE size(r)

\* mutant: the cursor is not moved past the RLE size before the fill byte is read
RecordFromBytesNoSkip(d) ==
    LET offset == IntFromBytes(Slice(d, 0, OFFSET_SIZE))
        i1 == OFFSET_SIZE
        sz == IntFromBytes(Slice(d, i1, i1 + SIZE_SIZE))
        i2 == i1 + SIZE_SIZE
    IN  IF sz > 0
        THEN IPSPatchRecord(offset, Slice(d, i2, i2 + sz), 0)
        ELSE LET rle_size == IntFromBytes(Slice(d, i2, i2 + RLE_SIZE_SIZE))
             IN  IPSPatchRecord(offset, Slice(d, i2, i2 + 1), rle_size)

\* IPSPatchRecord.from_bytes
RecordFromBytes(d) ==
    LET offset == IntFromBytes(Slice(d, 0, OFFSET_SIZE))
        i1 == OFFSET_SIZE
        sz == IntFromBytes(Slice(d, i1, i1 + SIZE_SIZE))
        i2 == i1 + SIZE_SIZE
    IN  IF sz > 0
        THEN IPSPatchRecord(offset, Slice(d, i2, i2 + sz), 0)
        ELSE LET rle_size == IntFromBytes(Slice(d, i2, i2 + RLE_SIZE_SIZE))
                 i3 == i2 + RLE_SIZE_SIZE
             IN  IPSPatchRecord(offset, Slice(d, i3, i3 + 1), rle_size)

\* IPSPatchRecord.to_bytes
RecordToBytes(r) ==
    IntToBytes(r.offset, OFFSET_SIZE) \o
    (IF is_rle(r)
     THEN Repeat(<<0>>, SIZE_SIZE) \o IntToBytes(r.rle_size, RLE_SIZE_SIZE)
          \o Repeat(Slice(r.data, 0, 1), r.rle_size)
     ELSE IntToBytes(Len(r.data), SIZE_SIZE) \o r.data)

\* IPSPatchRecord.apply
RecordApply(r, d) ==
    LET i == r.offset
    IN  IF is_rle(r)
        THEN SliceAssign(d, i, i + r.rle_size, Repeat(Slice(r.data, 0, 1), r.rle_size))
        ELSE SliceAssign(d, i, i + size(r), r.data)

\* IPSPatchRecord.__len__
RecordLen(r) ==
    IF is_rle(r) THEN OFFSET_SIZE + SIZE_SIZE + RLE_SIZE_SIZE + 1
    ELSE OFFSET_SIZE + SIZE_SIZE + Len(r.data)

-----------------------------------------------------------------------------
(* class IPSPatch: to_bytes, from_diff *)

RECURSIVE ConcatRecords(_)
ConcatRecords(records) ==
    IF records = <<>> THEN <<>>
    ELSE RecordToBytes(Head(records)) \o ConcatRecords(Tail(records))

\* IPSPatch.to_bytes
PatchToBytes(records) == PATCH \o ConcatRecords(records) \o EOF

\* operator.ne and operator.eq, the comparisons handed to find_first
ne == "ne"
eq == "eq"
\* comp(a, b)
Call(comp, a, b) == IF comp = ne THEN a # b ELSE a = b

\* find_first of from_diff: zip() stops at the shorter of the two slices
find_first(s, d, start, end, comp) ==
    LET zipLen == Min(Len(Slice(s, start, end)), Len(Slice(d, start, end)))
        hits == {x \in start..(start + zipLen - 1) : Call(comp, s[x + 1], d[x + 1])}
    IN  IF hits = {} THEN end
        ELSE CHOOSE x \in hits : \A y \in hits : x <= y

\* second loop of from_diff: the part of dest past len(src)
RECURSIVE DiffTail(_, _, _, _, _)
DiffTail(s, d, i, diff_start, records) ==
    IF i < Len(d)
    THEN LET diff_end == Min(Len(d), i + SIZE_MAX)
             r == IPSPatchRecord(diff_start, Slice(d, diff_start, diff_end), 0)
         IN  IF IsError(r) THEN r
             ELSE DiffTail(s, d, diff_end, diff_end, Append(records, r))
    ELSE [records |-> records]

RECURSIVE DiffRunsKeepStart(_, _, _, _, _), DiffRuns(_, _, _, _, _)
\* mutant: diff_start is not moved to the next mismatch
DiffRunsKeepStart(s, d, i, diff_start, records) ==
    IF i < Len(s)
    THEN LET diff_end == find_first(s, d, i, Min(Len(s), i + SIZE_MAX), eq)
             r == IPSPatchRecord(diff_start, Slice(d, diff_start, diff_end), 0)
             nxt == find_first(s, d, diff_end, Len(s), ne)
         IN  IF IsError(r) THEN r
             ELSE DiffRunsKeepStart(s, d, nxt, diff_start, Append(records, r))
    ELSE DiffTail(s, d, i, diff_start, records)

\* first loop of from_diff: the mismatch runs inside len(src)
DiffRuns(s, d, i, diff_start, records) ==
    IF i < Len(s)
    THEN LET diff_end == find_first(s, d, i, Min(Len(s), i + SIZE_MAX), eq)
             r == IPSPatchRecord(diff_start, Slice(d, diff_start, diff_end), 0)
             nxt == find_first(s, d, diff_end, Len(s), ne)
         IN  IF IsError(r) THEN r
             ELSE DiffRuns(s, d, nxt, nxt, Append(records, r))
    ELSE DiffTail(s, d, i, diff_start, records)

\* mutant: the first loop starts at 0, not at the first mismatch
PatchFromDiffFromZero(s, d) == DiffRuns(s, d, 0, 0, <<>>)

\* IPSPatch.from_diff: the records of the patch, or the ValueError raised
PatchFromDiff(s, d) ==
    LET first == find_first(s, d, 0, Len(s), ne)
    IN  DiffRuns(s, d, first, first, <<>>)

-----------------------------------------------------------------------------
(* Bounds of the explored inputs *)

\* longest enumerated byte string (diff buffers, record data)
MaxLen == 3
\* the long buffers are runs of SIZE_MAX .. SIZE_MAX + MaxPad equal bytes,
\* with at most one 0 byte more on each side
MaxPad == 1
\* most records in an enumerated patch
MaxRecords == 2
\* most units (a byte, or the end marker) after the magic of a decoded buffer
MaxUnits == 9

RECURSIVE Strings(_, _)
\* the byte strings of length 0..n over the bytes in B
Strings(B, n) ==
    IF n = 0 THEN {<<>>}
    ELSE LET shorter == Strings(B, n - 1)
         IN  shorter \cup {Append(t, b) : t \in shorter, b \in B}

RECURSIVE Flatten(_)
Flatten(ss) == IF ss = <<>> THEN <<>> ELSE Head(ss) \o Flatten(Tail(ss))

-----------------------------------------------------------------------------
(* Operations. pc is the caller's position; pos is from_bytes' cursor i. *)

\* IPSPatchRecord(offset, data, rle_size)
Construct ==
    /\ pc = "new"
    /\ record' = IPSPatchRecord(args.offset, args.data, args.rle_size)
    /\ pc' = IF IsError(record') THEN "rejected" ELSE "built"
    /\ UNCHANGED <<args, wire, pos, decoded, src, dest, patch, data, mutate, k, ret>>

\* record.to_bytes()
ToBytesRecord ==
    /\ pc = "built"
    /\ wire' = RecordToBytes(record)
    /\ pc' = "record_encoded"
    /\ UNCHANGED <<args, record, pos, decoded, src, dest, patch, data, mutate, k, ret>>

\* IPSPatchRecord.from_bytes(wire)
FromBytesRecord ==
    /\ pc = "record_encoded"
    /\ decoded' = RecordFromBytes(wire)
    /\ pc' = "record_decoded"
    /\ UNCHANGED <<args, record, wire, pos, src, dest, patch, data, mutate, k, ret>>

\* IPSPatch.from_diff(src, dest)
FromDiff ==
    /\ pc = "diff"
    /\ patch' = PatchFromDiff(src, dest)
    /\ pc' = IF IsError(patch') THEN "diff_raised" ELSE "diffed"
    /\ UNCHANGED <<args, record, wire, pos, decoded, src, dest, data, mutate, k, ret>>

\* patch.to_bytes()
ToBytes ==
    /\ pc \in {"patch", "diffed"}
    /\ wire' = PatchToBytes(patch.records)
    /\ pc' = IF pc = "patch" THEN "decode" ELSE "written"
    /\ UNCHANGED <<args, record, pos, decoded, src, dest, patch, data, mutate, k, ret>>

\* mutant: the magic is skipped, not checked
FromBytesBeginNoMagic ==
    /\ pc = "decode"
    /\ decoded' = [records |-> <<>>]
    /\ pc' = "decode_loop"
    /\ pos' = Len(PATCH)
    /\ UNCHANGED <<args, record, wire, src, dest, patch, data, mutate, k, ret>>

\* IPSPatch.from_bytes(wire), up to the loop: the magic check
FromBytesBegin ==
    /\ pc = "decode"
    /\ IF Slice(wire, 0, Len(PATCH)) # PATCH
       THEN /\ decoded' = ValueError
            /\ pc' = "raised"
            /\ pos' = 0
       ELSE /\ decoded' = [records |-> <<>>]
            /\ pc' = "decode_loop"
            /\ pos' = Len(PATCH)
    /\ UNCHANGED <<args, record, wire, src, dest, patch, data, mutate, k, ret>>

\* IPSPatch.from_bytes(wire): the loop test and one pass of the loop body
FromBytesStep ==
    /\ pc = "decode_loop"
    /\ IF Slice(wire, pos, pos + Len(EOF)) = EOF
       THEN /\ pc' = "returned"
            /\ UNCHANGED <<decoded, pos>>
       ELSE LET view == Slice(wire, pos, Len(wire))
                r == RecordFromBytes(view)
            IN  IF view = <<>> \/ IsError(r)
                THEN /\ decoded' = ValueError
                     /\ pc' = "raised"
                     /\ UNCHANGED pos
                ELSE /\ decoded' = [records |-> Append(decoded.records, r)]
                     /\ pos' = pos + RecordLen(r)
                     /\ pc' = "decode_loop"
    /\ UNCHANGED <<args, record, wire, src, dest, patch, data, mutate, k, ret>>

\* patch.apply(src, mutate), up to the loop
ApplyBegin ==
    /\ pc \in {"apply", "diffed"}
    /\ data' = src
    /\ k' = 0
    /\ pc' = "applying"
    /\ UNCHANGED <<args, record, wire, pos, decoded, src, dest, patch, mutate, ret>>

\* patch.apply: record.apply(data) for the next record; with mutate the
\* bytearray is the caller's own
ApplyRecord ==
    /\ pc = "applying"
    /\ k < Len(patch.records)
    /\ data' = RecordApply(patch.records[k + 1], data)
    /\ src' = IF mutate THEN data' ELSE src
    /\ k' = k + 1
    /\ UNCHANGED <<pc, args, record, wire, pos, decoded, dest, patch, mutate, ret>>

\* patch.apply: the return
ApplyReturn ==
    /\ pc = "applying"
    /\ k = Len(patch.records)
    /\ ret' = IF mutate THEN None ELSE [data |-> data]
    /\ pc' = "applied"
    /\ UNCHANGED <<args, record, wire, pos, decoded, src, dest, patch, data, mutate, k>>

-----------------------------------------------------------------------------
(* Specifications: one per entry point, each over the inputs it is given *)

Idle ==
    /\ args = None /\ record = None /\ wire = <<>> /\ pos = 0 /\ decoded = None
    /\ data = <<>> /\ k = 0 /\ ret = None

\* --- constructing, encoding and decoding one record
CtorOffsets == {-1, 0, 1, IntFromBytes(EOF), OFFSET_MAX, OFFSET_MAX + 1}
CtorData ==
    Strings({0, 69, 255}, MaxLen - 1)
        \cup {Repeat(<<0>>, SIZE_MAX + n) : n \in 0..MaxPad}
CtorRle == {-1, 0, 1, 2, RLE_SIZE_MAX, RLE_SIZE_MAX + 1}

InitRecord ==
    /\ pc = "new"
    /\ \E o \in CtorOffsets, d \in CtorData, r \in CtorRle :
          args = [offset |-> o, data |-> d, rle_size |-> r]
    /\ record = None /\ wire = <<>> /\ pos = 0 /\ decoded = None
    /\ src = <<>> /\ dest = <<>> /\ patch = None
    /\ data = <<>> /\ mutate = FALSE /\ k = 0 /\ ret = None

NextRecord == Construct \/ ToBytesRecord \/ FromBytesRecord

SpecRecord == InitRecord /\ [][NextRecord]_vars

\* --- diffing two buffers, then writing or applying the patch
ShortBuffers == Strings({0, 1}, MaxLen)
\* buffers longer than one record can hold
LongBuffers ==
    {h \o Repeat(<<b>>, SIZE_MAX + n) \o t :
        h \in Strings({0}, 1), t \in Strings({0}, 1), b \in {0, 1}, n \in 0..MaxPad}
DiffPairs ==
    (ShortBuffers \X ShortBuffers)
        \cup (LongBuffers \X LongBuffers)
        \cup (Strings({0, 1}, 1) \X LongBuffers)
        \cup (LongBuffers \X Strings({0, 1}, 1))

InitDiff ==
    /\ pc = "diff"
    /\ \E p \in DiffPairs : src = p[1] /\ dest = p[2]
    /\ patch = None /\ mutate = FALSE
    /\ Idle

NextDiff == FromDiff \/ ToBytes \/ ApplyBegin \/ ApplyRecord \/ ApplyReturn

SpecDiff == InitDiff /\ [][NextDiff]_vars

\* --- encoding a patch of valid records and decoding it again
PatchOffsets == {0, IntFromBytes(EOF), OFFSET_MAX}
LiteralRecords ==
    {IPSPatchRecord(o, d, 0) :
        o \in PatchOffsets, d \in Strings({0, 69}, MaxLen - 1) \ {<<>>}}
RleRecords ==
    {IPSPatchRecord(o, <<b>>, n) :
        o \in PatchOffsets, b \in {0, 69}, n \in 1..(MaxLen - 1)}
ValidRecords == LiteralRecords \cup RleRecords

RECURSIVE RecordLists(_, _)
\* the sequences of 0..n records of R
RecordLists(R, n) ==
    IF n = 0 THEN {<<>>}
    ELSE LET shorter == RecordLists(R, n - 1)
         IN  shorter \cup {Append(t, r) : t \in shorter, r \in R}

InitPatch ==
    /\ pc = "patch"
    /\ \E rs \in RecordLists(ValidRecords, MaxRecords) : patch = [records |-> rs]
    /\ src = <<>> /\ dest = <<>> /\ mutate = FALSE
    /\ Idle

NextPatch == ToBytes \/ FromBytesBegin \/ FromBytesStep

SpecPatch == InitPatch /\ [][NextPatch]_vars

\* --- decoding an arbitrary buffer
\* after the magic: up to MaxUnits units, each a byte 0 or 1 or the end marker
Units == {<<0>>, <<1>>, EOF}
Bodies == {Flatten(us) : us \in RecordLists(Units, MaxUnits)}
\* buffers that do not start with the magic
BadMagic ==
    {SubSeq(PATCH, 1, n) : n \in 0..(Len(PATCH) - 1)}
        \cup {[PATCH EXCEPT ![n] = 0] : n \in 1..Len(PATCH)}
DecodeInputs ==
    {PATCH \o b : b \in Bodies}
        \cup {m \o b : m \in BadMagic, b \in {<<>>, EOF, <<0, 0, 0, 0, 1, 0>> \o EOF}}

InitDecode ==
    /\ pc = "decode"
    /\ wire \in DecodeInputs
    /\ args = None /\ record = None /\ pos = 0 /\ decoded = None
    /\ src = <<>> /\ dest = <<>> /\ patch = None
    /\ data = <<>> /\ mutate = FALSE /\ k = 0 /\ ret = None

NextDecode == FromBytesBegin \/ FromBytesStep

SpecDecode == InitDecode /\ [][NextDecode]_vars

\* --- applying a patch of valid records to a buffer
ApplyOffsets == 0..MaxLen
ApplyRecords ==
    {IPSPatchRecord(o, d, 0) :
        o \in ApplyOffsets, d \in Strings({7, 8}, MaxLen - 1) \ {<<>>}}
        \cup {IPSPatchRecord(o, <<9>>, n) : o \in ApplyOffsets, n \in 1..(MaxLen - 1)}

InitApply ==
    /\ pc = "apply"
    /\ src \in Strings({0, 1}, MaxLen - 1)
    /\ \E rs \in RecordLists(ApplyRecords, MaxRecords) : patch = [records |-> rs]
    /\ mutate \in BOOLEAN
    /\ dest = <<>>
    /\ Idle

NextApply == ApplyBegin \/ ApplyRecord \/ ApplyReturn

SpecApply == InitApply /\ [][NextApply]_vars

\* from_bytes is one synchronous call: once started, it keeps running
FairSpecDecode == SpecDecode /\ WF_vars(NextDecode)

-----------------------------------------------------------------------------
(* Properties *)

\* C1: applying from_diff(src, dest) to a copy of src returns dest, for all
\* buffers, also when dest is shorter than src.
C1_DiffApplyInverse == pc = "applied" => ret = [data |-> dest]

\* C1, the part the code provides: the same when dest is not shorter than src.
DiffApplyInverseNotShorter ==
    (pc = "applied" /\ Len(dest) >= Len(src)) => ret = [data |-> dest]

\* C2: decoding the encoding of a patch of valid records succeeds and returns
\* the same records in the same order.
C2_PatchRoundTrip ==
    (pc \in {"returned", "raised"}) => (pc = "returned" /\ decoded = patch)

\* a valid record: a literal with data, or a run with one fill byte
ValidRecord(r) ==
    \/ r.rle_size = 0 /\ Len(r.data) >= 1
    \/ r.rle_size >= 1 /\ Len(r.data) = 1

\* C3: from_bytes(r.to_bytes()) has r's offset, RLE flag, rle_size and data,
\* for every valid record r.
C3_RecordRoundTrip ==
    (pc = "record_decoded" /\ ValidRecord(record)) =>
        /\ ~IsError(decoded)
        /\ decoded.offset = record.offset
        /\ is_rle(decoded) = is_rle(record)
        /\ decoded.rle_size = record.rle_size
        /\ decoded.data = record.data

C3_Witness ==
    /\ pc = "record_decoded"
    /\ is_rle(record) /\ record.rle_size >= 2 /\ Len(record.data) = 1
    /\ record.offset = OFFSET_MAX
    /\ decoded = record

\* C4: the size field of an accepted record's encoding is 0 exactly when the
\* record is RLE, and a non-RLE record with no data is rejected.
C4_RleAmbiguityGuard ==
    /\ pc = "record_encoded" =>
          ((IntFromBytes(Slice(wire, OFFSET_SIZE, OFFSET_SIZE + SIZE_SIZE)) = 0)
              <=> is_rle(record))
    /\ (pc # "new" /\ args.rle_size = 0 /\ args.data = <<>>) => pc = "rejected"

InRange(a) ==
    /\ 0 <= a.offset /\ a.offset <= 2 ^ 24 - 1
    /\ Len(a.data) <= 2 ^ 16 - 1
    /\ 0 <= a.rle_size /\ a.rle_size <= 2 ^ 16 - 1

\* C5: construction succeeds exactly when offset, data length and rle_size are
\* in range (the zero-length literal aside); otherwise it raises and builds no
\* record; an accepted record holds the values as given, untruncated.
C5_FieldBounds ==
    (pc # "new" /\ ~(args.rle_size = 0 /\ args.data = <<>>)) =>
        /\ (pc = "rejected") <=> ~InRange(args)
        /\ pc = "rejected" => record = ValueError
        /\ pc # "rejected" => record = args

C5_Witness ==
    /\ pc = "rejected"
    /\ args.offset = 2 ^ 24 /\ Len(args.data) = 2 ^ 16 - 1 /\ args.rle_size = 0

\* the bytes a record starting at p declares: header and data, or the RLE form
Need(w, p) ==
    LET sz == IntFromBytes(Slice(w, p + 3, p + 5))
    IN  IF sz > 0 THEN 5 + sz ELSE 8

RECURSIVE Starts(_)
\* where from_bytes began each of the records it decoded, and where it stands
Starts(records) ==
    IF records = <<>> THEN <<5>>
    ELSE LET before == Starts(SubSeq(records, 1, Len(records) - 1))
         IN  Append(before, before[Len(before)] + RecordLen(records[Len(records)]))

C6_Outcome ==
    /\ (pc \in {"returned", "raised"} /\ Slice(wire, 0, 5) # PATCH) =>
          (pc = "raised" /\ decoded = ValueError)
    /\ pc = "raised" => decoded = ValueError
    /\ pc = "returned" =>
          /\ pos + 3 <= Len(wire)
          /\ SubSeq(wire, pos + 1, pos + 3) = EOF
          /\ Starts(decoded.records)[Len(decoded.records) + 1] = pos
          /\ \A n \in 1..Len(decoded.records) :
                LET p == Starts(decoded.records)[n]
                IN  p + Need(wire, p) <= Len(wire)

C7_ApplyGrows ==
    [][(pc = "applying" /\ k' = k + 1) =>
        LET r == patch.records[k + 1]
            bytes == IF is_rle(r) THEN Repeat(Slice(r.data, 0, 1), r.rle_size)
                     ELSE r.data
        IN  Len(data) < r.offset + applied_size(r) =>
                /\ Len(data') >= r.offset + applied_size(r)
                /\ SubSeq(data', r.offset + 1, r.offset + applied_size(r)) = bytes
      ]_vars

\* C7, the part the code provides: the same for a buffer at least offset long.
ApplyGrowsFromInside ==
    [][(pc = "applying" /\ k' = k + 1) =>
        LET r == patch.records[k + 1]
            bytes == IF is_rle(r) THEN Repeat(Slice(r.data, 0, 1), r.rle_size)
                     ELSE r.data
        IN  (r.offset <= Len(data) /\ Len(data) < r.offset + applied_size(r)) =>
                /\ Len(data') = r.offset + applied_size(r)
                /\ SubSeq(data', r.offset + 1, r.offset + applied_size(r)) = bytes
                /\ SubSeq(data', 1, r.offset) = SubSeq(data, 1, r.offset)
      ]_vars

\* C8: from_diff(X, X) has no records and encodes as the magic followed by
\* the end marker, 8 bytes.
C8_IdenticalInputs ==
    (src = dest /\ pc \in {"diffed", "written", "applying", "applied"}) =>
        /\ patch = [records |-> <<>>]
        /\ pc = "written" => (wire = <<80, 65, 84, 67, 72, 69, 79, 70>>)

C8_Witness == pc = "written" /\ src = dest /\ Len(src) > SIZE_MAX

\* every record of the patch is a literal record
AllLiteral(p) == \A n \in 1..Len(p.records) : ~is_rle(p.records[n])

\* C9: decoding the encoding of a patch of valid literal records stops only at
\* the end marker written after the last record, every record read.
C9_NoEarlyEndMarker ==
    (pc \in {"returned", "raised"} /\ AllLiteral(patch)) =>
        /\ pc = "returned"
        /\ pos = Len(wire) - Len(EOF)
        /\ Len(decoded.records) = Len(patch.records)

\* C10: the records of from_diff have strictly increasing offsets and each
\* ends at or before the offset of the next.
C10_OrderedDisjoint ==
    (pc \in {"diffed", "written", "applying", "applied"}) =>
        \A n \in 1..(Len(patch.records) - 1) :
            LET a == patch.records[n]
                b == patch.records[n + 1]
            IN  /\ a.offset < b.offset
                /\ a.offset + applied_size(a) <= b.offset

C10_Witness ==
    /\ pc = "diffed"
    /\ Len(patch.records) >= 3
    /\ Len(patch.records[1].data) = SIZE_MAX
    /\ patch.records[2].offset = SIZE_MAX

====
